---- MODULE Spec2Model ----
\* PostgreSQL data-storage backend of retryspool (backend.go): the data table,
\* StoreData / GetDataReader / GetDataWriter / DeleteData and the two stream
\* adapters (bytesReadCloser, postgresDataWriter), as a state machine.
EXTENDS Integers, Sequences, FiniteSets, TLC

\* ---------------------------------------------------------------- bounds
MaxLen == 2      \* longest payload and longest writer buffer, in bytes
MaxChunk == 1    \* longest slice handed to one Write
MaxClock == 1    \* largest value time.Now() returns
MaxRead == 2     \* longest slice handed to one Read

DefaultMaxOpen == 25         \* NewFactory: maxOpenConns
DefaultMaxIdle == 5          \* NewFactory: maxIdleConns

Bytes == {1, 2}              \* byte values
Ids == {"m1", "m2"}          \* message identifiers
WriterIds == {"m1"}          \* identifiers writers are opened for
Writers == {"w1"}            \* writer handles held by the callers

\* all byte strings of length <= n
RECURSIVE SeqsUpTo(_)
SeqsUpTo(n) ==
    IF n = 0 THEN {<<>>}
    ELSE LET S == SeqsUpTo(n - 1)
         IN  S \cup {Append(s, b) : s \in {x \in S : Len(x) = n - 1}, b \in Bytes}

Payloads == SeqsUpTo(MaxLen)
Chunks == SeqsUpTo(MaxChunk)

\* the payloads stored under an identifier: every payload under m1, and one
\* payload under m2, the identifier that stands for the rest of the table
PayloadsOf(id) == IF id = "m1" THEN Payloads ELSE {<<2>>}

\* the inputs of a StoreData call with a given outcome; a call that fails is
\* tried with one payload, its result not depending on the bytes
InputsOf(id, outcome) == IF outcome = "ok" THEN PayloadsOf(id) ELSE {<<2>>}

\* ---------------------------------------------------------------- state
VARIABLES
    table,     \* the rows of the data table (a set of records)
    clock,     \* what time.Now() returns
    writers,   \* per writer handle: the postgresDataWriter
    res,       \* what the call that returned last returned
    stored,    \* the writer handles whose buffer an upsert of their Close committed
    calls,     \* per goroutine: the upsert statement it is about to execute
    readers,   \* per reader handle: the bytesReadCloser and the bytes read from it
    factory,   \* the Factory's fields
    creates,   \* per goroutine: the Factory.Create call it is in
    schema     \* the names of the tables that exist in the database

vars == <<table, clock, writers, res, stored, calls, readers, factory, creates, schema>>

\* the state of the calls in flight and of the readers
flight == <<calls, readers>>

\* the state Factory.Create works on
construction == <<factory, creates, schema>>

\* error values, by the text of the error the code builds
Nil == "nil"
ErrNotFound == "data for message not found"
ErrGet == "failed to get data for message"
ErrStore == "failed to store data for message"
ErrDelete == "failed to delete data for message"
ErrRead == "failed to read data"
ErrClosed == "writer is closed"
EOF == "EOF"

\* ---------------------------------------------------------------- SQL
Row(id, data, size, created, updated) ==
    [message_id |-> id, data |-> data, size |-> size,
     created |-> created, updated |-> updated]

RowsOf(t, id) == {r \in t : r.message_id = id}

HasRow(t, id) == RowsOf(t, id) # {}

TheRow(t, id) == CHOOSE r \in t : r.message_id = id

\* Upsert as an overwrite in place that keeps the old tail of a longer value
UpsertInPlace(t, id, data, size, created, updated) ==
    IF HasRow(t, id)
    THEN {IF r.message_id = id
          THEN [r EXCEPT !.data = data \o SubSeq(r.data, Len(data) + 1, Len(r.data)),
                         !.size = size, !.updated = updated]
          ELSE r : r \in t}
    ELSE t \cup {Row(id, data, size, created, updated)}

\* Upsert whose conflict clause also sets created = EXCLUDED.created
UpsertSetsCreated(t, id, data, size, created, updated) ==
    (t \ RowsOf(t, id)) \cup {Row(id, data, size, created, updated)}

\* INSERT INTO t (message_id, data, size, created, updated) VALUES (...)
\* ON CONFLICT (message_id) DO UPDATE SET data, size, updated = EXCLUDED.*
UpsertAllRows(t, id, data, size, created, updated) ==
    IF HasRow(t, id)
    THEN {[r EXCEPT !.data = data, !.size = size, !.updated = updated] : r \in t}
    ELSE t \cup {Row(id, data, size, created, updated)}

UpsertKeepsSize(t, id, data, size, created, updated) ==
    IF HasRow(t, id)
    THEN {IF r.message_id = id
          THEN [r EXCEPT !.data = data, !.updated = updated]
          ELSE r : r \in t}
    ELSE t \cup {Row(id, data, size, created, updated)}

UpsertKeepsData(t, id, data, size, created, updated) ==
    IF HasRow(t, id)
    THEN {IF r.message_id = id
          THEN [r EXCEPT !.size = Len(r.data), !.updated = updated]
          ELSE r : r \in t}
    ELSE t \cup {Row(id, data, size, created, updated)}

Upsert(t, id, data, size, created, updated) ==
    IF HasRow(t, id)
    THEN {IF r.message_id = id
          THEN [r EXCEPT !.data = data, !.size = size, !.updated = updated]
          ELSE r : r \in t}
    ELSE t \cup {Row(id, data, size, created, updated)}

\* SELECT data FROM t, the WHERE clause forgotten
SelectAnyData(t, id) == {r.data : r \in t}

\* SELECT data FROM t WHERE message_id = $1: the data of the rows found
SelectData(t, id) == {r.data : r \in RowsOf(t, id)}

\* DELETE FROM t, the WHERE clause forgotten
DeleteAllRows(t, id) == {}

\* DELETE FROM t WHERE message_id = $1
DeleteRows(t, id) == t \ RowsOf(t, id)

RowsAffected(t, id) == Cardinality(RowsOf(t, id))

\* int64(len(dataBytes))
Size(data) == Len(data)

\* ---------------------------------------------------------------- results
Result(op, id, p, n, err) ==
    [op |-> op, id |-> id, p |-> p, n |-> n, err |-> err, after |-> "-"]

NoResult == Result("none", "", <<>>, 0, Nil)

\* a call returns r: r becomes the last result; r.after names the call that
\* returned successfully just before it, when that call was on the same identifier
Return(r) ==
    res' = [r EXCEPT !.after = IF res.id = r.id /\ res.err = Nil THEN res.op ELSE "-"]

NoWriter == [made |-> FALSE, messageID |-> "", buffer |-> <<>>, closed |-> FALSE]

\* goroutines that call StoreData, and goroutines that call Factory.Create
Callers == {"c1"}
Creators == {"g1", "g2"}
Readers == {"r1"}

\* no upsert statement in flight
NoCall == [pc |-> "idle", messageID |-> "", dataBytes |-> <<>>, size |-> 0, now |-> 0]

NoReader ==
    [made |-> FALSE, messageID |-> "", data |-> <<>>, offset |-> 0,
     got |-> <<>>, eof |-> FALSE, snap |-> <<>>]

\* NewFactory(dsn)
NewFactory ==
    [tableName |-> "retryspool_data", maxOpenConns |-> DefaultMaxOpen,
     maxIdleConns |-> DefaultMaxIdle]

\* a goroutine that has not called Create
NoCreate ==
    [pc |-> "idle", db |-> "none", tableName |-> "", maxOpen |-> 0, maxIdle |-> 0,
     backend |-> FALSE, err |-> FALSE, stages |-> <<>>]

Init ==
    /\ table = {}
    /\ clock = 0
    /\ writers = [w \in Writers |-> NoWriter]
    /\ res = NoResult
    /\ stored = {}
    /\ calls = [c \in Callers \cup Writers |-> NoCall]
    /\ readers = [r \in Readers |-> NoReader]
    /\ factory = NewFactory
    /\ creates = [g \in Creators |-> NoCreate]
    /\ schema = {}

\* time passes between two calls
Tick ==
    /\ clock < MaxClock
    /\ clock' = clock + 1
    /\ UNCHANGED <<table, writers, res, stored, flight, construction>>

\* ---------------------------------------------------------------- StoreData
\* StoreData that returns before the upsert when the payload is empty
StoreDataSkipsEmpty(id, p, outcome) ==
    /\ IF outcome = "read"
       THEN /\ Return(Result("StoreData", id, <<>>, 0, ErrRead))
            /\ UNCHANGED table
       ELSE IF outcome = "db"
       THEN /\ Return(Result("StoreData", id, <<>>, 0, ErrStore))
            /\ UNCHANGED table
       ELSE /\ Return(Result("StoreData", id, p, Size(p), Nil))
            /\ table' = IF Len(p) = 0 THEN table
                        ELSE Upsert(table, id, p, Size(p), clock, clock)
    /\ UNCHANGED <<clock, writers, stored, flight, construction>>

\* StoreData(ctx, id, data) where data delivers p; outcome is "ok", "read"
\* (the input reader fails) or "db" (the upsert statement fails)
StoreData(id, p, outcome) ==
    /\ IF outcome = "read"
       THEN /\ Return(Result("StoreData", id, <<>>, 0, ErrRead))
            /\ UNCHANGED table
       ELSE IF outcome = "db"
       THEN /\ Return(Result("StoreData", id, <<>>, 0, ErrStore))
            /\ UNCHANGED table
       ELSE /\ Return(Result("StoreData", id, p, Size(p), Nil))
            /\ table' = Upsert(table, id, p, Size(p), clock, clock)
    /\ UNCHANGED <<clock, writers, stored, flight, construction>>

\* ---------------------------------------------------------------- GetDataReader
NewReader(data) == [data |-> data, offset |-> 0]

\* Read that signals end-of-data one byte early (offset + 1 >= len)
brcReadShort(brc, k) ==
    IF brc.offset + 1 >= Len(brc.data)
    THEN [bytes |-> <<>>, n |-> 0, err |-> EOF, brc |-> brc]
    ELSE LET rest == Len(brc.data) - brc.offset
             n == IF rest < k THEN rest ELSE k
         IN  [bytes |-> SubSeq(brc.data, brc.offset + 1, brc.offset + n),
              n |-> n, err |-> Nil,
              brc |-> [brc EXCEPT !.offset = brc.offset + n]]

\* Read that starts over once the end has been reached
brcReadRewind(brc, k) ==
    IF brc.offset >= Len(brc.data)
    THEN [bytes |-> <<>>, n |-> 0, err |-> EOF, brc |-> [brc EXCEPT !.offset = 0]]
    ELSE LET rest == Len(brc.data) - brc.offset
             n == IF rest < k THEN rest ELSE k
         IN  [bytes |-> SubSeq(brc.data, brc.offset + 1, brc.offset + n),
              n |-> n, err |-> Nil,
              brc |-> [brc EXCEPT !.offset = brc.offset + n]]

\* bytesReadCloser.Read(p) with len(p) = k: bytes copied into p, error, reader after
brcRead(brc, k) ==
    IF brc.offset >= Len(brc.data)
    THEN [bytes |-> <<>>, n |-> 0, err |-> EOF, brc |-> brc]
    ELSE LET rest == Len(brc.data) - brc.offset
             n == IF rest < k THEN rest ELSE k
         IN  [bytes |-> SubSeq(brc.data, brc.offset + 1, brc.offset + n),
              n |-> n, err |-> Nil,
              brc |-> [brc EXCEPT !.offset = brc.offset + n]]

\* io.ReadAll(reader) with slices of k >= 1 bytes: Read until it returns an error
RECURSIVE ReadAll(_, _, _)
ReadAll(brc, k, fuel) ==
    LET r == brcRead(brc, k)
    IN  IF r.err # Nil \/ fuel = 0 THEN <<>>
        ELSE r.bytes \o ReadAll(r.brc, k, fuel - 1)

\* GetDataReader(ctx, id), then io.ReadAll on the reader it returned
Fetch(id, k, dbFails) ==
    /\ IF dbFails
       THEN Return(Result("GetDataReader", id, <<>>, 0, ErrGet))
       ELSE IF SelectData(table, id) = {}
       THEN Return(Result("GetDataReader", id, <<>>, 0, ErrNotFound))
       ELSE LET data == CHOOSE d \in SelectData(table, id) : TRUE
                read == ReadAll(NewReader(data), k, MaxLen + 1)
            IN  Return(Result("GetDataReader", id, read, Len(read), Nil))
    /\ UNCHANGED <<table, clock, writers, stored, flight, construction>>

\* ---------------------------------------------------------------- readers in use
\* GetDataReader(ctx, id) returning its reader to r; snap remembers the stored
\* payload at that moment, got and eof what the reader has delivered since
GetDataReader(r, id, dbFails) ==
    /\ IF dbFails
       THEN /\ Return(Result("GetDataReader", id, <<>>, 0, ErrGet))
            /\ UNCHANGED readers
       ELSE IF SelectData(table, id) = {}
       THEN /\ Return(Result("GetDataReader", id, <<>>, 0, ErrNotFound))
            /\ UNCHANGED readers
       ELSE LET data == CHOOSE d \in SelectData(table, id) : TRUE
                brc == NewReader(data)
            IN  /\ Return(Result("GetDataReader", id, <<>>, 0, Nil))
                /\ readers' = [readers EXCEPT ![r] =
                       [made |-> TRUE, messageID |-> id, data |-> brc.data,
                        offset |-> brc.offset, got |-> <<>>, eof |-> FALSE, snap |-> data]]
    /\ UNCHANGED <<table, clock, writers, stored, calls, construction>>

\* Read that serves the bytes the table holds now instead of the fetched ones
ReadLive(r, k) ==
    LET rd   == readers[r]
        now  == SelectData(table, rd.messageID)
        live == IF now = {} THEN <<>> ELSE CHOOSE d \in now : TRUE
        x    == brcRead([data |-> live, offset |-> rd.offset], k)
    IN  /\ rd.made
        /\ Return(Result("Read", rd.messageID, x.bytes, x.n, x.err))
        /\ readers' = [readers EXCEPT ![r] =
               [rd EXCEPT !.offset = x.brc.offset, !.got = rd.got \o x.bytes,
                          !.eof = rd.eof \/ x.err = EOF]]
        /\ UNCHANGED <<table, clock, writers, stored, calls, construction>>

\* r.Read(p) with len(p) = k on the reader GetDataReader returned
Read(r, k) ==
    LET rd == readers[r]
        x  == brcRead([data |-> rd.data, offset |-> rd.offset], k)
    IN  /\ rd.made
        /\ Return(Result("Read", rd.messageID, x.bytes, x.n, x.err))
        /\ readers' = [readers EXCEPT ![r] =
               [rd EXCEPT !.data = x.brc.data, !.offset = x.brc.offset,
                          !.got = rd.got \o x.bytes, !.eof = rd.eof \/ x.err = EOF]]
        /\ UNCHANGED <<table, clock, writers, stored, calls, construction>>

\* ---------------------------------------------------------------- DeleteData
\* DeleteData that reports every failure as not found
DeleteDataLax(id, dbFails) ==
    /\ IF dbFails
       THEN /\ Return(Result("DeleteData", id, <<>>, 0, ErrNotFound))
            /\ UNCHANGED table
       ELSE /\ IF RowsAffected(table, id) = 0
               THEN Return(Result("DeleteData", id, <<>>, 0, ErrNotFound))
               ELSE Return(Result("DeleteData", id, <<>>, 0, Nil))
            /\ table' = DeleteRows(table, id)
    /\ UNCHANGED <<clock, writers, stored, flight, construction>>

DeleteData(id, dbFails) ==
    /\ IF dbFails
       THEN /\ Return(Result("DeleteData", id, <<>>, 0, ErrDelete))
            /\ UNCHANGED table
       ELSE /\ IF RowsAffected(table, id) = 0
               THEN Return(Result("DeleteData", id, <<>>, 0, ErrNotFound))
               ELSE Return(Result("DeleteData", id, <<>>, 0, Nil))
            /\ table' = DeleteRows(table, id)
    /\ UNCHANGED <<clock, writers, stored, flight, construction>>

\* ---------------------------------------------------------------- writer
GetDataWriter(w, id) ==
    /\ writers' = [writers EXCEPT ![w] =
          [made |-> TRUE, messageID |-> id, buffer |-> <<>>, closed |-> FALSE]]
    /\ Return(Result("GetDataWriter", id, <<>>, 0, Nil))
    /\ stored' = stored \ {w}
    /\ UNCHANGED <<table, clock, flight, construction>>

\* Write that puts the new bytes in front of the buffer
pdwWritePrepend(pdw, p) ==
    IF pdw.closed
    THEN [n |-> 0, err |-> ErrClosed, pdw |-> pdw]
    ELSE [n |-> Len(p), err |-> Nil, pdw |-> [pdw EXCEPT !.buffer = p \o pdw.buffer]]

\* Write without the closed check
pdwWriteUnchecked(pdw, p) ==
    [n |-> Len(p), err |-> Nil, pdw |-> [pdw EXCEPT !.buffer = pdw.buffer \o p]]

\* postgresDataWriter.Write(p): bytes written, error, writer after
pdwWrite(pdw, p) ==
    IF pdw.closed
    THEN [n |-> 0, err |-> ErrClosed, pdw |-> pdw]
    ELSE [n |-> Len(p), err |-> Nil, pdw |-> [pdw EXCEPT !.buffer = pdw.buffer \o p]]

\* Write that also stores the buffer so far
WriteThrough(w, p) ==
    LET pdw == writers[w]
        r == pdwWrite(pdw, p)
    IN  /\ pdw.made
        /\ Len(r.pdw.buffer) <= MaxLen
        /\ writers' = [writers EXCEPT ![w] = r.pdw]
        /\ Return(Result("Write", pdw.messageID, <<>>, r.n, r.err))
        /\ table' = Upsert(table, pdw.messageID, r.pdw.buffer,
                           Size(r.pdw.buffer), clock, clock)
        /\ UNCHANGED <<clock, stored, flight, construction>>

Write(w, p) ==
    LET pdw == writers[w]
        r == pdwWrite(pdw, p)
    IN  /\ pdw.made
        /\ Len(r.pdw.buffer) <= MaxLen
        /\ writers' = [writers EXCEPT ![w] = r.pdw]
        /\ Return(Result("Write", pdw.messageID, <<>>, r.n, r.err))
        /\ UNCHANGED <<table, clock, stored, flight, construction>>

\* Close without the empty-buffer return
pdwCloseEmpty(pdw) ==
    IF pdw.closed
    THEN [upsert |-> FALSE, pdw |-> pdw]
    ELSE [upsert |-> TRUE, pdw |-> [pdw EXCEPT !.closed = TRUE]]

\* Close without the closed check
pdwCloseAgain(pdw) ==
    IF Len(pdw.buffer) = 0
    THEN [upsert |-> FALSE, pdw |-> [pdw EXCEPT !.closed = TRUE]]
    ELSE [upsert |-> TRUE, pdw |-> [pdw EXCEPT !.closed = TRUE]]

\* postgresDataWriter.Close(): the statement it issues (none, or the upsert of
\* the buffer) and the writer after
pdwClose(pdw) ==
    IF pdw.closed
    THEN [upsert |-> FALSE, pdw |-> pdw]
    ELSE IF Len(pdw.buffer) = 0
    THEN [upsert |-> FALSE, pdw |-> [pdw EXCEPT !.closed = TRUE]]
    ELSE [upsert |-> TRUE, pdw |-> [pdw EXCEPT !.closed = TRUE]]

Close(w, dbFails) ==
    LET pdw == writers[w]
        c == pdwClose(pdw)
    IN  /\ pdw.made
        /\ writers' = [writers EXCEPT ![w] = c.pdw]
        /\ IF ~c.upsert
           THEN /\ ~dbFails
                /\ Return(Result("Close", pdw.messageID, <<>>, 0, Nil))
                /\ UNCHANGED <<table, stored>>
           ELSE IF dbFails
           THEN /\ Return(Result("Close", pdw.messageID, <<>>, 0, ErrStore))
                /\ UNCHANGED <<table, stored>>
           ELSE /\ Return(Result("Close", pdw.messageID, <<>>, 0, Nil))
                /\ table' = Upsert(table, pdw.messageID, pdw.buffer,
                                   Size(pdw.buffer), clock, clock)
                /\ stored' = stored \cup {w}
        /\ UNCHANGED <<clock, flight, construction>>

\* ---------------------------------------------------------------- calls in steps
\* the locals of StoreData / Close when the upsert statement is about to run:
\* the bytes, size := int64(len(bytes)) and now := time.Now()
Frame(id, data, now) ==
    [pc |-> "exec", messageID |-> id, dataBytes |-> data, size |-> Size(data), now |-> now]

\* StoreData that stores the bytes read before the input failed, then reports
StoreDataStartStoresPartial(c, id, p, readFails) ==
    /\ calls[c].pc = "idle"
    /\ IF readFails
       THEN /\ Return(Result("StoreData", id, <<>>, 0, ErrRead))
            /\ table' = Upsert(table, id, <<>>, 0, clock, clock)
            /\ UNCHANGED calls
       ELSE /\ calls' = [calls EXCEPT ![c] = Frame(id, p, clock)]
            /\ UNCHANGED <<res, table>>
    /\ UNCHANGED <<clock, writers, stored, readers, construction>>

\* StoreData up to the upsert statement: io.ReadAll, size, time.Now()
StoreDataStart(c, id, p, readFails) ==
    /\ calls[c].pc = "idle"
    /\ IF readFails
       THEN /\ Return(Result("StoreData", id, <<>>, 0, ErrRead))
            /\ UNCHANGED calls
       ELSE /\ calls' = [calls EXCEPT ![c] = Frame(id, p, clock)]
            /\ UNCHANGED res
    /\ UNCHANGED <<table, clock, writers, stored, readers, construction>>

\* StoreData from b.db.ExecContext(ctx, query, messageID, dataBytes, size, now, now) on
StoreDataExec(c, dbFails) ==
    LET f == calls[c] IN
    /\ f.pc = "exec"
    /\ IF dbFails
       THEN /\ Return(Result("StoreData", f.messageID, <<>>, 0, ErrStore))
            /\ UNCHANGED table
       ELSE /\ Return(Result("StoreData", f.messageID, f.dataBytes, f.size, Nil))
            /\ table' = Upsert(table, f.messageID, f.dataBytes, f.size, f.now, f.now)
    /\ calls' = [calls EXCEPT ![c] = NoCall]
    /\ UNCHANGED <<clock, writers, stored, readers, construction>>

\* Close up to the upsert statement: the closed and empty-buffer checks, size, time.Now()
CloseStart(w) ==
    LET pdw == writers[w]
        c == pdwClose(pdw)
    IN  /\ pdw.made
        /\ calls[w].pc = "idle"
        /\ writers' = [writers EXCEPT ![w] = c.pdw]
        /\ IF ~c.upsert
           THEN /\ Return(Result("Close", pdw.messageID, <<>>, 0, Nil))
                /\ UNCHANGED calls
           ELSE /\ calls' = [calls EXCEPT ![w] = Frame(pdw.messageID, pdw.buffer, clock)]
                /\ UNCHANGED res
        /\ UNCHANGED <<table, clock, stored, readers, construction>>

\* Close from pdw.backend.db.ExecContext(pdw.ctx, query, ...) on; the result
\* carries the bytes the statement committed
CloseExec(w, dbFails) ==
    LET f == calls[w] IN
    /\ f.pc = "exec"
    /\ IF dbFails
       THEN /\ Return(Result("Close", f.messageID, <<>>, 0, ErrStore))
            /\ UNCHANGED <<table, stored>>
       ELSE /\ Return(Result("Close", f.messageID, f.dataBytes, 0, Nil))
            /\ table' = Upsert(table, f.messageID, f.dataBytes, f.size, f.now, f.now)
            /\ stored' = stored \cup {w}
    /\ calls' = [calls EXCEPT ![w] = NoCall]
    /\ UNCHANGED <<clock, writers, readers, construction>>

\* ---------------------------------------------------------------- factory
TableNames == {"retryspool_data", "test_data"}
ConnLimits == {1, DefaultMaxOpen}
IdleLimits == {1, DefaultMaxIdle}

\* no Create is between its first and its last statement
NoCreateRunning == \A g \in Creators : creates[g].pc \in {"idle", "done"}

WithTableName(tableName) ==
    /\ NoCreateRunning
    /\ factory' = [factory EXCEPT !.tableName = tableName]
    /\ UNCHANGED <<table, clock, writers, res, stored, flight, creates, schema>>

WithConnectionLimits(maxOpen, maxIdle) ==
    /\ NoCreateRunning
    /\ factory' = [factory EXCEPT !.maxOpenConns = maxOpen, !.maxIdleConns = maxIdle]
    /\ UNCHANGED <<table, clock, writers, res, stored, flight, creates, schema>>

\* db, err := sql.Open("postgres", f.dsn); if err != nil { return nil, err }
CreateOpen(g, fails) ==
    /\ creates[g].pc = "idle"
    /\ creates' = [creates EXCEPT ![g] =
                     IF fails
                     THEN [@ EXCEPT !.pc = "done", !.err = TRUE]
                     ELSE [@ EXCEPT !.pc = "limits", !.db = "open", !.stages = <<"open">>]]
    /\ UNCHANGED <<table, clock, writers, res, stored, flight, factory, schema>>

\* db.SetMaxOpenConns(f.maxOpenConns); db.SetMaxIdleConns(f.maxIdleConns)
CreateLimits(g) ==
    /\ creates[g].pc = "limits"
    /\ creates' = [creates EXCEPT ![g] =
                     [@ EXCEPT !.pc = "ping", !.maxOpen = factory.maxOpenConns,
                               !.maxIdle = factory.maxIdleConns]]
    /\ UNCHANGED <<table, clock, writers, res, stored, flight, factory, schema>>

CreatePingLeaks(g, fails) ==
    /\ creates[g].pc = "ping"
    /\ creates' = [creates EXCEPT ![g] =
                     IF fails
                     THEN [@ EXCEPT !.pc = "done", !.err = TRUE]
                     ELSE [@ EXCEPT !.pc = "table", !.tableName = factory.tableName,
                                    !.stages = Append(@, "ping")]]
    /\ UNCHANGED <<table, clock, writers, res, stored, flight, factory, schema>>

\* if err := db.Ping(); err != nil { db.Close(); return nil, err }
\* backend := &Backend{db: db, tableName: f.tableName}
CreatePing(g, fails) ==
    /\ creates[g].pc = "ping"
    /\ creates' = [creates EXCEPT ![g] =
                     IF fails
                     THEN [@ EXCEPT !.pc = "done", !.db = "closed", !.err = TRUE]
                     ELSE [@ EXCEPT !.pc = "table", !.tableName = factory.tableName,
                                    !.stages = Append(@, "ping")]]
    /\ UNCHANGED <<table, clock, writers, res, stored, flight, factory, schema>>

\* if err := backend.createTable(); err != nil { db.Close(); return nil, err }
\* return backend, nil
\* a failed Exec of the CREATE statements may or may not have left the table
CreateTable(g, fails, made) ==
    LET c == creates[g] IN
    /\ c.pc = "table"
    /\ fails \/ made
    /\ creates' = [creates EXCEPT ![g] =
                     IF fails
                     THEN [@ EXCEPT !.pc = "done", !.db = "closed", !.err = TRUE]
                     ELSE [@ EXCEPT !.pc = "done", !.backend = TRUE,
                                    !.stages = Append(@, "table")]]
    /\ schema' = IF made THEN schema \cup {c.tableName} ELSE schema
    /\ UNCHANGED <<table, clock, writers, res, stored, flight, factory>>

\* Backend.Close: return b.db.Close()
BackendClose(g) ==
    /\ creates[g].pc = "done"
    /\ creates[g].backend
    /\ creates[g].db = "open"
    /\ creates' = [creates EXCEPT ![g] = [@ EXCEPT !.db = "closed"]]
    /\ UNCHANGED <<table, clock, writers, res, stored, flight, factory, schema>>

\* ---------------------------------------------------------------- specifications
\* callers of the blob store, one call at a time
NextStore ==
    \/ Tick
    \/ \E id \in Ids, o \in {"ok", "read", "db"} : \E p \in InputsOf(id, o) : StoreData(id, p, o)
    \/ \E id \in Ids, k \in 1 .. MaxRead, f \in BOOLEAN : Fetch(id, k, f)
    \/ \E id \in Ids, f \in BOOLEAN : DeleteData(id, f)

SpecStore == Init /\ [][NextStore]_vars

\* a writer and the other callers of the store on the writer's identifier
NextWriter ==
    \/ Tick
    \/ \E w \in Writers, id \in WriterIds : GetDataWriter(w, id)
    \/ \E w \in Writers, p \in Chunks : Write(w, p)
    \/ \E w \in Writers, f \in BOOLEAN : Close(w, f)
    \/ \E id \in WriterIds, o \in {"ok", "read", "db"} : \E p \in InputsOf(id, o) : StoreData(id, p, o)
    \/ \E id \in WriterIds, f \in BOOLEAN : DeleteData(id, f)

SpecWriter == Init /\ [][NextWriter]_vars

\* a caller and a writer on one identifier, the statements of their calls
\* interleaved; a writer is used by one goroutine, so not while its Close runs
ConcIds == {"m1"}
ConcPayloads == {<<2>>, <<2, 1>>}
ConcChunks == {<<1>>}

NextConc ==
    \/ Tick
    \/ \E c \in Callers, id \in ConcIds, p \in ConcPayloads, f \in BOOLEAN :
          StoreDataStart(c, id, p, f)
    \/ \E c \in Callers, f \in BOOLEAN : StoreDataExec(c, f)
    \/ \E w \in Writers, id \in ConcIds : calls[w].pc = "idle" /\ GetDataWriter(w, id)
    \/ \E w \in Writers, p \in ConcChunks : calls[w].pc = "idle" /\ Write(w, p)
    \/ \E w \in Writers : CloseStart(w)
    \/ \E w \in Writers, f \in BOOLEAN : CloseExec(w, f)
    \/ \E id \in ConcIds, f \in BOOLEAN : DeleteData(id, f)

SpecConc == Init /\ [][NextConc]_vars

\* a caller and a writer on either identifier, the statements of their calls
\* interleaved
NextFrame ==
    \/ \E c \in Callers, id \in Ids, p \in ConcPayloads, f \in BOOLEAN :
          StoreDataStart(c, id, p, f)
    \/ \E c \in Callers, f \in BOOLEAN : StoreDataExec(c, f)
    \/ \E w \in Writers, id \in Ids : calls[w].pc = "idle" /\ GetDataWriter(w, id)
    \/ \E w \in Writers, p \in ConcChunks : calls[w].pc = "idle" /\ Write(w, p)
    \/ \E w \in Writers : CloseStart(w)
    \/ \E w \in Writers, f \in BOOLEAN : CloseExec(w, f)
    \/ \E id \in Ids, f \in BOOLEAN : DeleteData(id, f)

SpecFrame == Init /\ [][NextFrame]_vars

ReadPayloads == {<<>>, <<2>>, <<2, 1>>}

\* a reader in use while the store's other calls run on its identifier
NextReader ==
    \/ \E r \in Readers, id \in ConcIds, f \in BOOLEAN : GetDataReader(r, id, f)
    \/ \E r \in Readers, k \in 0 .. MaxRead : Read(r, k)
    \/ \E id \in ConcIds, p \in ReadPayloads : StoreData(id, p, "ok")
    \/ \E id \in ConcIds, f \in BOOLEAN : DeleteData(id, f)
    \/ \E w \in Writers, id \in ConcIds : GetDataWriter(w, id)
    \/ \E w \in Writers, p \in ConcChunks : Write(w, p)
    \/ \E w \in Writers, f \in BOOLEAN : Close(w, f)

SpecReader == Init /\ [][NextReader]_vars

NextFactory ==
    \/ \E n \in TableNames : WithTableName(n)
    \/ \E mo \in ConnLimits, mi \in IdleLimits : WithConnectionLimits(mo, mi)
    \/ \E g \in Creators, f \in BOOLEAN : CreateOpen(g, f)
    \/ \E g \in Creators : CreateLimits(g)
    \/ \E g \in Creators, f \in BOOLEAN : CreatePing(g, f)
    \/ \E g \in Creators, f \in BOOLEAN, m \in BOOLEAN : CreateTable(g, f, m)
    \/ \E g \in Creators : BackendClose(g)

SpecFactory == Init /\ [][NextFactory]_vars

\* ---------------------------------------------------------------- claims
\* the call that returned last was a successful op on id
Did(op, id) == res.op = op /\ res.id = id /\ res.err = Nil

\* C1: round trip. A successful StoreData(id, p) returns len(p), and a
\* GetDataReader(id) issued next succeeds and, read to end-of-data, yields
\* exactly the bytes of p.
C1_RoundTrip ==
    [][\A id \in Ids :
         /\ \A p \in PayloadsOf(id) :
              StoreData(id, p, "ok") => res'.err = Nil /\ res'.n = Len(p) /\ res'.p = p
         /\ \A k \in 1 .. MaxRead :
              Did("StoreData", id) /\ Fetch(id, k, FALSE)
                  => res'.err = Nil /\ res'.p = res.p /\ res'.n = Len(res.p)]_vars

\* a fetch issued right after a successful store returned MaxLen bytes
C1_Witness ==
    /\ res.op = "GetDataReader" /\ res.after = "StoreData"
    /\ res.err = Nil /\ Len(res.p) = MaxLen

\* C2: overwrite. A successful StoreData(id, p2) that follows a successful
\* StoreData(id, p1) leaves exactly one row for id, returns len(p2), leaves
\* p2 and nothing of p1 as the row's data, and sets updated to the time taken
\* by the second store; the fetch that follows returns p2.
C2_Overwrite ==
    [][\A id \in Ids :
         /\ \A p2 \in PayloadsOf(id) :
              Did("StoreData", id) /\ StoreData(id, p2, "ok")
                  => /\ Cardinality(RowsOf(table', id)) = 1
                     /\ res'.n = Len(p2)
                     /\ TheRow(table', id).data = p2
                     /\ TheRow(table', id).size = Len(p2)
                     /\ TheRow(table', id).updated = clock
                     /\ SelectData(table', id) = {p2}
         /\ \A k \in 1 .. MaxRead :
              Did("StoreData", id) /\ res.after = "StoreData" /\ Fetch(id, k, FALSE)
                  => res'.err = Nil /\ res'.p = res.p]_vars

\* a store right after a store, on a row inserted earlier, with a payload
\* shorter than the longest one
C2_Witness ==
    /\ res.op = "StoreData" /\ res.after = "StoreData" /\ res.err = Nil
    /\ Len(res.p) < MaxLen
    /\ \E r \in table : r.message_id = res.id /\ r.created < r.updated /\ r.data = res.p

\* C3: created is set by the upsert that inserts the row and is left unchanged
\* by every step that keeps the row (an upsert by StoreData or by a writer's
\* Close); only a delete followed by a new store gives a new created value.
C3_CreatedKept ==
    [][\A id \in Ids :
         /\ HasRow(table, id) /\ HasRow(table', id)
                => TheRow(table', id).created = TheRow(table, id).created
         /\ ~HasRow(table, id) /\ HasRow(table', id)
                => TheRow(table', id).created = clock]_vars

\* a writer's Close overwrote a row that was inserted earlier
C3_Witness ==
    /\ res.op = "Close" /\ res.err = Nil
    /\ \E w \in Writers, r \in table :
          /\ r.message_id = res.id /\ writers[w].messageID = res.id
          /\ r.data = writers[w].buffer /\ r.created < r.updated

\* C4: DeleteData(id) on an existing row succeeds and removes that row only,
\* and the GetDataReader(id) that follows fails with NotFound; DeleteData(id)
\* on an absent row fails with NotFound and leaves the table unchanged, so the
\* second of two consecutive deletes fails.
C4_Delete ==
    [][\A id \in Ids :
         /\ DeleteData(id, FALSE) /\ HasRow(table, id)
                => res'.err = Nil /\ table' = table \ RowsOf(table, id)
                                  /\ ~HasRow(table', id)
         /\ DeleteData(id, FALSE) /\ ~HasRow(table, id)
                => res'.err = ErrNotFound /\ table' = table
         /\ Did("DeleteData", id) /\ DeleteData(id, FALSE)
                => res'.err = ErrNotFound /\ table' = table
         /\ \A k \in 1 .. MaxRead :
              Did("DeleteData", id) /\ Fetch(id, k, FALSE) => res'.err = ErrNotFound]_vars

\* the second of two consecutive deletes failed, another row being in the table
C4_Witness ==
    /\ res.op = "DeleteData" /\ res.after = "DeleteData" /\ res.err = ErrNotFound
    /\ table # {}

\* C5: GetDataReader(id) fails with NotFound, returning no data, whenever the
\* table holds no row for id when it runs: never stored, or stored and deleted.
C5_FetchNotFound ==
    [][\A id \in Ids, k \in 1 .. MaxRead :
         Fetch(id, k, FALSE) /\ ~HasRow(table, id)
             => res'.err = ErrNotFound /\ res'.p = <<>> /\ res'.n = 0]_vars

\* a fetch right after a successful delete failed with NotFound, another row
\* being in the table
C5_Witness ==
    /\ res.op = "GetDataReader" /\ res.after = "DeleteData" /\ res.err = ErrNotFound
    /\ table # {}

\* C6: every Write on an open writer returns the length of its chunk and puts
\* the chunk at the end of the buffer, and a successful Close of a writer with
\* a non-empty buffer leaves one row for the writer's id whose data is the
\* buffer (the chunks in write order) and whose size is its length.
C6_WriterCommit ==
    [][\A w \in Writers :
         /\ \A p \in Chunks :
              Write(w, p) /\ ~writers[w].closed
                  => /\ res'.err = Nil /\ res'.n = Len(p)
                     /\ writers'[w].buffer = writers[w].buffer \o p
         /\ Close(w, FALSE) /\ ~writers[w].closed /\ writers[w].buffer # <<>>
                => /\ res'.err = Nil
                   /\ Cardinality(RowsOf(table', writers[w].messageID)) = 1
                   /\ TheRow(table', writers[w].messageID).data = writers[w].buffer
                   /\ TheRow(table', writers[w].messageID).size = Len(writers[w].buffer)]_vars

\* a Close committed a buffer made of two different one-byte chunks
C6_Witness ==
    /\ res.op = "Close" /\ res.err = Nil
    /\ \E w \in Writers, r \in table :
          /\ writers[w].messageID = res.id /\ r.message_id = res.id
          /\ Len(writers[w].buffer) = 2 /\ writers[w].buffer[1] # writers[w].buffer[2]
          /\ r.data = writers[w].buffer /\ r.size = 2

\* C7: GetDataWriter and every Write on an open writer leave the table as it
\* is, so what a GetDataReader selects for any id is the same before and after.
C7_WriteBuffersOnly ==
    [][\A w \in Writers :
         (\/ \E id \in WriterIds : GetDataWriter(w, id)
          \/ \E p \in Chunks : Write(w, p) /\ ~writers[w].closed)
             => /\ table' = table
                /\ \A id \in Ids : SelectData(table', id) = SelectData(table, id)]_vars

\* a Write of an open writer returned, the writer holds MaxLen bytes and its
\* id has no row
C7_Witness ==
    /\ res.op = "Write" /\ res.err = Nil
    /\ \E w \in Writers :
          /\ writers[w].messageID = res.id /\ ~writers[w].closed
          /\ Len(writers[w].buffer) = MaxLen /\ SelectData(table, res.id) = {}

\* C8: Close of a writer whose buffer is empty returns success and leaves the
\* table unchanged: an absent id stays absent, a row keeps all its fields.
C8_EmptyClose ==
    [][\A w \in Writers, f \in BOOLEAN :
         Close(w, f) /\ writers[w].buffer = <<>>
             => res'.err = Nil /\ table' = table]_vars

\* a first Close of a writer without bytes returned while its id has a row
C8_Witness ==
    /\ res.op = "Close" /\ res.after \in {"GetDataWriter", "Write"} /\ res.err = Nil
    /\ \E w \in Writers :
          /\ writers[w].messageID = res.id /\ writers[w].buffer = <<>>
          /\ writers[w].closed /\ HasRow(table, res.id)

\* C9: every Write on a closed writer fails with "writer is closed", reports 0
\* bytes, and changes neither the writer nor the table.
C9_WriteAfterClose ==
    [][\A w \in Writers, p \in Chunks :
         Write(w, p) /\ writers[w].closed
             => /\ res'.err = ErrClosed /\ res'.n = 0
                /\ writers' = writers /\ table' = table]_vars

\* a Write on a closed writer that holds bytes failed
C9_Witness ==
    /\ res.op = "Write" /\ res.err = ErrClosed
    /\ \E w \in Writers :
          writers[w].messageID = res.id /\ writers[w].closed /\ writers[w].buffer # <<>>

\* C10: every Close of a closed writer returns success and changes neither the
\* table nor the writer, whatever happened since the first Close.
C10_CloseIdempotent ==
    [][\A w \in Writers, f \in BOOLEAN :
         Close(w, f) /\ writers[w].closed
             => res'.err = Nil /\ table' = table /\ writers' = writers]_vars

\* a Close of a writer with bytes returned success while its id has no row:
\* a Close after the first, the row deleted or never stored
C10_Witness ==
    /\ res.op = "Close" /\ res.err = Nil
    /\ \E w \in Writers :
          /\ writers[w].messageID = res.id /\ writers[w].closed
          /\ writers[w].buffer # <<>> /\ ~HasRow(table, res.id)

\* C11: StoreData with an empty payload succeeds, returns 0 and leaves one row
\* for id with empty data and size 0; the GetDataReader that follows succeeds
\* and yields no byte before end-of-data, not NotFound.
C11_EmptyPayload ==
    [][\A id \in Ids :
         /\ StoreData(id, <<>>, "ok")
                => /\ res'.err = Nil /\ res'.n = 0
                   /\ Cardinality(RowsOf(table', id)) = 1
                   /\ TheRow(table', id).data = <<>>
                   /\ TheRow(table', id).size = 0
         /\ \A k \in 1 .. MaxRead :
              Did("StoreData", id) /\ res.p = <<>> /\ Fetch(id, k, FALSE)
                  => res'.err = Nil /\ res'.p = <<>> /\ res'.n = 0]_vars

\* a fetch right after a store of the empty payload over a longer one
\* succeeded with no bytes
C11_Witness ==
    /\ res.op = "GetDataReader" /\ res.after = "StoreData"
    /\ res.err = Nil /\ res.p = <<>>
    /\ \E r \in table : r.message_id = res.id /\ r.size = 0 /\ r.created < r.updated

\* C15: GetDataReader and DeleteData report NotFound exactly when their
\* statement ran without a driver error and found no row for the id; a driver
\* error is reported with another error, never NotFound.
C15_NotFoundExact ==
    [][\A id \in Ids, f \in BOOLEAN :
         /\ \A k \in 1 .. MaxRead :
              Fetch(id, k, f)
                  => /\ res'.err = ErrNotFound <=> (~f /\ ~HasRow(table, id))
                     /\ f => res'.err = ErrGet /\ ErrGet # ErrNotFound
         /\ DeleteData(id, f)
                => /\ res'.err = ErrNotFound <=> (~f /\ ~HasRow(table, id))
                   /\ f => res'.err = ErrDelete /\ ErrDelete # ErrNotFound]_vars

\* a DeleteData whose statement failed, no row being there for the id
C15_Witness ==
    /\ res.op = "DeleteData" /\ res.err = ErrDelete
    /\ ~HasRow(table, res.id) /\ table # {}

\* C19: a Close of a writer with a non-empty buffer returns success only if an
\* upsert of that writer's Close committed the buffer; after a first Close that
\* failed in the database, a further Close does not report success.
C19_CloseSuccessMeansStored ==
    res.op = "Close" /\ res.err = Nil
        => \A w \in Writers :
              writers[w].made /\ writers[w].messageID = res.id /\ writers[w].buffer # <<>>
                  => w \in stored

\* C12: in every reachable state, under any interleaving of the statements of
\* StoreData, writer Write/Close and DeleteData, every record of the table has
\* size equal to the byte length of its data
C12_SizeIsLen == \A r \in table : r.size = Len(r.data)

\* a Close committed a shorter payload over the record a longer StoreData made
C12_Witness ==
    /\ res.op = "Close" /\ res.err = Nil /\ res.after = "StoreData"
    /\ \E r \in table : r.data = res.p /\ r.size = 1 /\ r.created < r.updated

\* C13: in every reachable state every record has created <= updated, also
\* when StoreData calls and writer Closes on one identifier interleave, each
\* taking its timestamp before its upsert statement commits
C13_CreatedLeUpdated == \A r \in table : r.created <= r.updated

\* C14: when StoreData calls and writer Closes on one identifier overlap, the
\* record after a commit has the data and the size of the upsert that
\* committed last, never one call's data with another call's size
C14_LastCommitWins ==
    res.op \in {"StoreData", "Close"} /\ res.err = Nil /\ res.p # <<>>
        => RowsOf(table, res.id) # {}
           /\ \A r \in RowsOf(table, res.id) : r.data = res.p /\ r.size = Len(res.p)

\* the call that took its timestamp first committed last, over the record
\* the other call inserted while it was in flight, and its payload is stored
C14_Witness ==
    /\ res.op = "StoreData" /\ res.err = Nil /\ res.after = "Close"
    /\ \E r \in table : r.data = res.p /\ r.size = Len(res.p) /\ r.updated < r.created

\* C16: Factory.Create returns a backend and no error, or an error and no
\* backend, never both or neither; when it returns an error no connection
\* pool it opened is left open; a backend is returned only after sql.Open,
\* Ping and createTable succeeded in that order
C16_CreateAllOrNothing ==
    \A g \in Creators :
        LET c == creates[g] IN
        /\ c.pc = "done" => (c.backend # c.err)
        /\ c.pc = "done" /\ c.err => c.db # "open"
        /\ c.backend => c.pc = "done" /\ c.stages = <<"open", "ping", "table">>

\* one Create failed in createTable after Ping succeeded and closed its pool,
\* one failed in Ping, and the table exists although no backend was returned
C16_Witness ==
    /\ creates["g1"].pc = "done" /\ creates["g1"].err
    /\ creates["g1"].stages = <<"open", "ping">> /\ creates["g1"].db = "closed"
    /\ creates["g2"].pc = "done" /\ creates["g2"].err
    /\ creates["g2"].stages = <<"open">> /\ creates["g2"].db = "closed"
    /\ schema # {}

\* C17: a reader is forward-only and single-pass: each Read returns the bytes
\* that follow the ones already delivered, so that the bytes delivered so far
\* are a prefix of the fetched payload; the offset never decreases and never
\* exceeds the payload length; end-of-data is signalled only when every byte
\* has been delivered, with 0 bytes; once signalled, every later Read signals it
C17_ForwardOnly ==
    [][res'.op = "Read" =>
         \E r \in Readers :
             LET a == readers[r]
                 b == readers'[r]
             IN  /\ a.made /\ b.data = a.data
                 /\ a.offset <= b.offset /\ b.offset <= Len(a.data)
                 /\ b.offset = a.offset + res'.n
                 /\ res'.p = SubSeq(a.data, a.offset + 1, b.offset)
                 /\ b.got = SubSeq(a.data, 1, b.offset)
                 /\ res'.err \in {Nil, EOF}
                 /\ res'.err = EOF => a.offset = Len(a.data) /\ res'.n = 0 /\ b.got = a.data
                 /\ a.eof => res'.err = EOF /\ res'.n = 0]_vars

\* a two-byte payload has been delivered to its last byte, still stored, and
\* the Read that followed a successful Read signalled end-of-data
C17_Witness ==
    /\ res.op = "Read" /\ res.err = EOF /\ res.after = "Read"
    /\ \E r \in Readers :
          /\ readers[r].made /\ readers[r].eof
          /\ Len(readers[r].data) = 2 /\ readers[r].got = readers[r].data
          /\ \E rw \in table : rw.data = readers[r].data

\* C20: a reader is a snapshot taken by GetDataReader: whatever StoreData,
\* writer Close or DeleteData do to its identifier afterwards, between its
\* Reads, the bytes it delivers are a prefix of the payload stored when it
\* was opened, and the whole of it once it has signalled end-of-data
C20_Snapshot ==
    \A r \in Readers :
        readers[r].made =>
            /\ Len(readers[r].got) <= Len(readers[r].snap)
            /\ readers[r].got = SubSeq(readers[r].snap, 1, Len(readers[r].got))
            /\ readers[r].eof => readers[r].got = readers[r].snap

\* a reader delivered its two bytes to the end although the record was
\* replaced by a writer's Close, or deleted, after it had been opened
C20_Witness ==
    \E r \in Readers :
        /\ readers[r].made /\ readers[r].eof
        /\ Len(readers[r].snap) = 2 /\ readers[r].got = readers[r].snap
        /\ SelectData(table, readers[r].messageID) # {readers[r].snap}
        /\ res.op = "Read" /\ res.err = EOF

\* C18: operations on one identifier never affect another: a step that
\* changes the record of identifier b, or makes or removes it, is the commit
\* of a StoreData, a writer Close or a DeleteData on b itself, under any
\* interleaving of the calls' statements
C18_OtherIdsUntouched ==
    [][\A b \in Ids :
          RowsOf(table', b) # RowsOf(table, b)
              => /\ res'.id = b
                 /\ res'.op \in {"StoreData", "Close", "DeleteData"}
                 /\ res'.err = Nil]_vars

\* a writer's Close committed the record of m1 while a StoreData on m2
\* is in flight and the record of m2, with other bytes, is still there
C18_Witness ==
    /\ res.op = "Close" /\ res.id = "m1" /\ res.err = Nil /\ res.p # <<>>
    /\ \E c \in Callers : calls[c].pc = "exec" /\ calls[c].messageID = "m2"
    /\ \E r1 \in RowsOf(table, "m1"), r2 \in RowsOf(table, "m2") :
          r1.data = res.p /\ r2.data # r1.data

====
